---------------------------- MODULE Spec2Model ----------------------------
(***************************************************************************)
(* Model of the M-Pesa STK push server.                                    *)
(*                                                                         *)
(*   controllers/lipa.Controller.js  the /send handler, lipaController,    *)
(*                                   and the module-level payload          *)
(*   index.js                        the Express host that mounts it       *)
(*   README.md                       the documented reference flow:        *)
(*                                   getAccessToken, getTimestamp,         *)
(*                                   getPassword, initiateSTKPush          *)
(*                                                                         *)
(* JavaScript values are tagged records: Undefined, Str(s), Num(n).        *)
(* Strings that are formatted or encoded (timestamp, password) are         *)
(* sequences of character codes.                                           *)
(***************************************************************************)
EXTENDS Integers, Sequences, FiniteSets, TLC

\* ------------------------------------------------------------------ bounds
MaxCalls  == 2      \* HTTP requests to /send
MaxPushes == 2      \* calls of the README's initiateSTKPush
MaxTicks  == 2      \* clock advances

\* ---------------------------------------------------------- JavaScript values
Undefined == [t |-> "undefined"]
Str(s)    == [t |-> "str", v |-> s]
Num(n)    == [t |-> "num", v |-> n]

\* ToBoolean(x) is false: undefined, the empty string, 0
Falsy(x) ==
    \/ x.t = "undefined"
    \/ (x.t = "str" /\ x.v = "")
    \/ (x.t = "num" /\ x.v = 0)

\* -------------------------------------------------------------- configuration
MPESA_BUSINESS_SHORT_CODE == Str("174379")
mpesa_safaricom_url       == "MPESA_SANDBOX_URL"
stkpush_url               == "baseUrl/mpesa/stkpush/v1/processrequest"
SHORTCODE == <<49, 55, 52, 51, 55, 57>>                  \* "174379"
PASSKEY   == <<98, 102, 98, 50, 55, 57, 102, 57>>        \* "bfb279f9"
ExpiresIn == 3599

\* ------------------------------------------------------------------ timestamp
\* The clock counts seconds from 2025-11-24 00:00:00 Africa/Nairobi.
BaseDate      == <<2025, 11, 24>>
BaseYear      == BaseDate[1]
BaseMonth     == BaseDate[2]
BaseDay       == BaseDate[3]
SecondsPerDay == 24 * 60 * 60
StartClocks   == {SecondsPerDay - 1}

Digit(n) == 48 + n
pad(n)   == <<Digit((n \div 10) % 10), Digit(n % 10)>>
pad4(n)  == <<Digit((n \div 1000) % 10), Digit((n \div 100) % 10)>> \o pad(n % 100)

\* toLocaleString('sv-SE', {timeZone: 'Africa/Nairobi'}).replace(/\D/g, '')
getTimestamp(now) ==
    LET secs == now % SecondsPerDay
    IN  pad4(BaseYear) \o pad(BaseMonth) \o pad(BaseDay + (now \div SecondsPerDay))
        \o pad(secs \div 3600) \o pad((secs \div 60) % 60) \o pad(secs % 60)

\* --------------------------------------------------------------------- base64
B64 ==
    <<"A","B","C","D","E","F","G","H","I","J","K","L","M","N","O","P",
      "Q","R","S","T","U","V","W","X","Y","Z","a","b","c","d","e","f",
      "g","h","i","j","k","l","m","n","o","p","q","r","s","t","u","v",
      "w","x","y","z","0","1","2","3","4","5","6","7","8","9","+","/">>

B64Char(n) == B64[n + 1]

RECURSIVE Base64(_)
\* Buffer.from(bytes).toString('base64')
Base64(b) ==
    IF Len(b) = 0 THEN <<>>
    ELSE IF Len(b) = 1 THEN
        <<B64Char(b[1] \div 4), B64Char((b[1] % 4) * 16), "=", "=">>
    ELSE IF Len(b) = 2 THEN
        <<B64Char(b[1] \div 4),
          B64Char((b[1] % 4) * 16 + b[2] \div 16),
          B64Char((b[2] % 16) * 4), "=">>
    ELSE
        <<B64Char(b[1] \div 4),
          B64Char((b[1] % 4) * 16 + b[2] \div 16),
          B64Char((b[2] % 16) * 4 + b[3] \div 64),
          B64Char(b[3] % 64)>> \o Base64(SubSeq(b, 4, Len(b)))

getPassword(shortcode, passkey, timestamp) ==
    Base64(shortcode \o passkey \o timestamp)

\* ------------------------------------------------------------------- inputs
PhoneNumbers == {Undefined, Str(""), Str("254708374149"), Str("254999999999")}
Amounts      == {Undefined, Str(""), Num(0), Num(-5), Num(1)}
PushPhones   == {Str("254708374149")}
PushAmounts  == {Num(1)}
ClockSteps   == {1}                 \* the server: one second at a time
TokenClockSteps == {1, ExpiresIn}    \* stkpush.js: also a token's lifetime

\* The identifiers the module-level payload reads (BUSINESS_SHORT_CODE, amount,
\* phone) are not declared in lipa.Controller.js. The model takes the module
\* scope to supply them: they are bound once, when the module is loaded, to
\* whatever the scope holds then; no request has arrived yet.
ModuleBindings ==
    { [BUSINESS_SHORT_CODE |-> Undefined, amount |-> Undefined, phone |-> Undefined],
      [BUSINESS_SHORT_CODE |-> MPESA_BUSINESS_SHORT_CODE, amount |-> Num(1),
       phone |-> Str("254708374149")] }

UnhandledRejectionModes == {"throw", "warn"}

Calls  == 1..MaxCalls
Pushes == 1..MaxPushes

NoAuth        == [t |-> "none"]
Bearer(token) == [t |-> "bearer", token |-> token]
NoToken       == 0

VARIABLES
    clock,        \* the system clock, in seconds
    ticks,        \* how often the clock has advanced
    payload,      \* lipa.Controller.js: the module-level const payload
    calls,        \* the requests to /send: position, req.body, response, steps
    pushes,       \* the calls of initiateSTKPush: position, arguments, outcome
    posts,        \* the outbound POSTs, in the order they were issued
    tokenCalls,   \* the calls of getAccessToken, in the order they were made
    oauthGets,    \* the outbound GETs to the token endpoint
    unhandled,    \* promise rejections no handler was attached to
    crashed       \* the server process was ended by an unhandled rejection

vars == <<clock, ticks, payload, calls, pushes, posts, tokenCalls, oauthGets,
          unhandled, crashed>>

\* const payload = {...}: evaluated once, when the module is loaded; timestamp
\* and password are the module-level constants computed at that moment.
ModulePayload(b, now) ==
    LET timestamp == getTimestamp(now)
        password  == getPassword(SHORTCODE, PASSKEY, timestamp)
    IN  [ BusinessShortCode |-> b.BUSINESS_SHORT_CODE,
          Password          |-> password,
          Timestamp         |-> timestamp,
          TransactionType   |-> "CustomerPayBillOnline",
          Amount            |-> b.amount,
          PartyA            |-> b.phone,
          PartyB            |-> MPESA_BUSINESS_SHORT_CODE,
          PhoneNumber       |-> b.phone,
          CallBackURL       |-> "https://buysasaOnline.com/",
          AccountReference  |-> "BuySasa online shop",
          TransactionDesc   |-> "Payment" ]

\* requestBody of initiateSTKPush
RequestBody(phoneNumber, amount, timestamp, password) ==
    [ BusinessShortCode |-> Str("174379"),
      Password          |-> password,
      Timestamp         |-> timestamp,
      TransactionType   |-> "CustomerPayBillOnline",
      Amount            |-> amount,
      PartyA            |-> phoneNumber,
      PartyB            |-> Str("174379"),
      PhoneNumber       |-> phoneNumber,
      CallBackURL       |-> "MPESA_CALLBACK_URL",
      AccountReference  |-> "Payment",
      TransactionDesc   |-> "STK Push" ]

\* What the caller of /send has been sent: nothing yet, or the body of res.json
NoResponse == [t |-> "none"]
ValidationResponse ==
    [t |-> "json", succcess |-> FALSE, msg |-> "Please provide all the fields"]

IdleCall == [pc |-> "idle", phoneNumber |-> Undefined, amount |-> Undefined,
             res |-> NoResponse, steps |-> <<>>]
IdlePush == [pc |-> "idle", phoneNumber |-> Undefined, amount |-> Undefined,
             token |-> NoToken, outcome |-> "none", steps |-> <<>>]

Init ==
    /\ clock \in StartClocks
    /\ ticks = 0
    /\ \E b \in ModuleBindings : payload = ModulePayload(b, clock)
    /\ calls = [c \in Calls |-> IdleCall]
    /\ pushes = [s \in Pushes |-> IdlePush]
    /\ posts = <<>>
    /\ tokenCalls = <<>>
    /\ oauthGets = 0
    /\ unhandled = 0
    /\ crashed = FALSE

\* ---------------------------------------------------------------- the clock
Tick(d) ==
    /\ ticks < MaxTicks
    /\ clock' = clock + d
    /\ ticks' = ticks + 1
    /\ UNCHANGED <<payload, calls, pushes, posts, tokenCalls, oauthGets,
                   unhandled, crashed>>

\* ------------------------------------------------- controllers/lipa.Controller.js
\* Mutant of MissingFields: the guard written with && for ||
MissingFieldsBoth(phoneNumber, amount) == Falsy(phoneNumber) /\ Falsy(amount)

\* if (!phoneNumber || !amount)
MissingFields(phoneNumber, amount) == Falsy(phoneNumber) \/ Falsy(amount)

\* axios.post(mpesa_safaricom_url, payload): no config argument, so no headers
LipaPost(c) ==
    [kind |-> "lipa", call |-> c, url |-> mpesa_safaricom_url, body |-> payload,
     auth |-> NoAuth, at |-> clock, state |-> "inflight"]

\* Mutant of LipaSend: the POST issued a second time
LipaSendTwice(c) == <<LipaPost(c), LipaPost(c)>>

\* What the handler sends once the fields are there.
LipaSend(c) == <<LipaPost(c)>>

\* The handler holds no await: it runs from the destructuring to its return in
\* one step of the event loop.
lipaController(c, phoneNumber, amount) ==
    /\ ~crashed
    /\ calls[c].pc = "idle"
    /\ \A b \in 1..(c - 1) : calls[b].pc # "idle"    \* numbered as they arrive
    /\ IF MissingFields(phoneNumber, amount)
       THEN /\ calls' = [calls EXCEPT ![c] =
                   [pc |-> "returned", phoneNumber |-> phoneNumber,
                    amount |-> amount, res |-> ValidationResponse,
                    steps |-> <<"validate", "respond">>]]
            /\ posts' = posts
       ELSE /\ calls' = [calls EXCEPT ![c] =
                   [pc |-> "returned", phoneNumber |-> phoneNumber,
                    amount |-> amount, res |-> NoResponse,
                    steps |-> <<"validate", "send">>]]
            /\ posts' = posts \o LipaSend(c)
    /\ UNCHANGED <<clock, ticks, payload, pushes, tokenCalls, oauthGets,
                   unhandled, crashed>>

\* The provider answers 2xx: the promise axios.post returned is fulfilled, and
\* nothing reads it.
LipaPostFulfilled(i) ==
    /\ ~crashed
    /\ i \in 1..Len(posts)
    /\ posts[i].kind = "lipa"
    /\ posts[i].state = "inflight"
    /\ posts' = [posts EXCEPT ![i].state = "fulfilled"]
    /\ UNCHANGED <<clock, ticks, payload, calls, pushes, tokenCalls, oauthGets,
                   unhandled, crashed>>

\* Network error or non-2xx status: the promise is rejected. No handler was
\* attached (no await, no .catch), so the rejection is unhandled: Node ends the
\* process (--unhandled-rejections=throw, the default since Node 15) or only
\* warns (older versions, =warn).
LipaPostRejected(i, mode) ==
    /\ ~crashed
    /\ i \in 1..Len(posts)
    /\ posts[i].kind = "lipa"
    /\ posts[i].state = "inflight"
    /\ posts' = [posts EXCEPT ![i].state = "rejected"]
    /\ unhandled' = unhandled + 1
    /\ crashed' = (mode = "throw")
    /\ UNCHANGED <<clock, ticks, payload, calls, pushes, tokenCalls, oauthGets>>

\* ------------------------------------------------------ README.md: stkpush.js
\* The position in tokenCalls of the call of getAccessToken that push s awaits.
PendingTokenCall(s) ==
    CHOOSE i \in 1..Len(tokenCalls) :
        tokenCalls[i].caller = s /\ tokenCalls[i].state = "inflight"

\* The position in posts of the POST that push s awaits.
PendingPost(s) ==
    CHOOSE i \in 1..Len(posts) :
        posts[i].kind = "stk" /\ posts[i].call = s /\ posts[i].state = "inflight"

\* getAccessToken(): every call issues the GET to the token endpoint; nothing
\* is kept between calls.
getAccessToken(s) ==
    /\ tokenCalls' = Append(tokenCalls,
           [caller |-> s, startedAt |-> clock, state |-> "inflight",
            token |-> NoToken, respondedAt |-> 0, outbound |-> TRUE])
    /\ oauthGets' = oauthGets + 1

\* initiateSTKPush up to its first await: const token = await getAccessToken()
initiateSTKPush(s, phoneNumber, amount) ==
    /\ pushes[s].pc = "idle"
    /\ \A b \in 1..(s - 1) : pushes[b].pc # "idle"   \* numbered as they are made
    /\ getAccessToken(s)
    /\ pushes' = [pushes EXCEPT ![s] =
           [pc |-> "awaitToken", phoneNumber |-> phoneNumber, amount |-> amount,
            token |-> NoToken, outcome |-> "none", steps |-> <<"getToken">>]]
    /\ UNCHANGED <<clock, ticks, payload, calls, posts, unhandled, crashed>>

\* The token endpoint answers {access_token, expires_in: 3599}; the provider
\* issues a token of its own choosing per request (here: the request's number).
\* initiateSTKPush resumes: timestamp, password, requestBody, axios.post with
\* the Bearer header, up to its second await.
TokenFulfilled(s) ==
    /\ pushes[s].pc = "awaitToken"
    /\ LET i         == PendingTokenCall(s)
           token     == i
           timestamp == getTimestamp(clock)
           password  == getPassword(SHORTCODE, PASSKEY, timestamp)
       IN  /\ tokenCalls' = [tokenCalls EXCEPT ![i].state = "fulfilled",
                                               ![i].token = token,
                                               ![i].respondedAt = clock]
           /\ posts' = Append(posts,
                  [kind |-> "stk", call |-> s, url |-> stkpush_url,
                   body |-> RequestBody(pushes[s].phoneNumber, pushes[s].amount,
                                        timestamp, password),
                   auth |-> Bearer(token), at |-> clock, state |-> "inflight"])
           /\ pushes' = [pushes EXCEPT
                  ![s].pc = "awaitPost",
                  ![s].token = token,
                  ![s].steps = @ \o <<"token", "timestamp", "credentials", "send">>]
    /\ UNCHANGED <<clock, ticks, payload, calls, oauthGets, unhandled, crashed>>

\* The token request fails: the await throws, the catch logs and rethrows to
\* the caller of initiateSTKPush.
TokenRejected(s) ==
    /\ pushes[s].pc = "awaitToken"
    /\ LET i == PendingTokenCall(s)
       IN  tokenCalls' = [tokenCalls EXCEPT ![i].state = "rejected",
                                            ![i].respondedAt = clock]
    /\ pushes' = [pushes EXCEPT ![s].pc = "threw", ![s].outcome = "error",
                                ![s].steps = @ \o <<"throw">>]
    /\ UNCHANGED <<clock, ticks, payload, calls, posts, oauthGets, unhandled,
                   crashed>>

\* The token endpoint answers 2xx with a body that holds no access_token:
\* response.data.access_token is undefined and getAccessToken returns it; no
\* check follows. initiateSTKPush resumes as after any token and posts with
\* the header `Bearer ${undefined}`.
TokenMalformed(s) ==
    /\ pushes[s].pc = "awaitToken"
    /\ LET i         == PendingTokenCall(s)
           timestamp == getTimestamp(clock)
           password  == getPassword(SHORTCODE, PASSKEY, timestamp)
       IN  /\ tokenCalls' = [tokenCalls EXCEPT ![i].state = "malformed",
                                               ![i].respondedAt = clock]
           /\ posts' = Append(posts,
                  [kind |-> "stk", call |-> s, url |-> stkpush_url,
                   body |-> RequestBody(pushes[s].phoneNumber, pushes[s].amount,
                                        timestamp, password),
                   auth |-> Bearer(NoToken), at |-> clock, state |-> "inflight"])
           /\ pushes' = [pushes EXCEPT
                  ![s].pc = "awaitPost",
                  ![s].steps = @ \o <<"token", "timestamp", "credentials", "send">>]
    /\ UNCHANGED <<clock, ticks, payload, calls, oauthGets, unhandled, crashed>>

\* The payment endpoint answers 2xx: return response.data
StkPostFulfilled(s) ==
    /\ pushes[s].pc = "awaitPost"
    /\ posts' = [posts EXCEPT ![PendingPost(s)].state = "fulfilled"]
    /\ pushes' = [pushes EXCEPT ![s].pc = "returned", ![s].outcome = "result",
                                ![s].steps = @ \o <<"return">>]
    /\ UNCHANGED <<clock, ticks, payload, calls, tokenCalls, oauthGets,
                   unhandled, crashed>>

\* The payment request fails: the catch logs and rethrows
StkPostRejected(s) ==
    /\ pushes[s].pc = "awaitPost"
    /\ posts' = [posts EXCEPT ![PendingPost(s)].state = "rejected"]
    /\ pushes' = [pushes EXCEPT ![s].pc = "threw", ![s].outcome = "error",
                                ![s].steps = @ \o <<"throw">>]
    /\ UNCHANGED <<clock, ticks, payload, calls, tokenCalls, oauthGets,
                   unhandled, crashed>>

\* -------------------------------------------------------------- specification
\* The server: index.js mounts lipaController on /send.
Next ==
    \/ \E d \in ClockSteps : Tick(d)
    \/ \E c \in Calls, phoneNumber \in PhoneNumbers, amount \in Amounts :
          lipaController(c, phoneNumber, amount)
    \/ \E i \in 1..Len(posts) : LipaPostFulfilled(i)
    \/ \E i \in 1..Len(posts), mode \in UnhandledRejectionModes :
          LipaPostRejected(i, mode)

Spec == Init /\ [][Next]_vars

\* The README's stkpush.js, a program of its own.
ReadmeNext ==
    \/ \E d \in TokenClockSteps : Tick(d)
    \/ \E s \in Pushes, phoneNumber \in PushPhones, amount \in PushAmounts :
          initiateSTKPush(s, phoneNumber, amount)
    \/ \E s \in Pushes : TokenFulfilled(s)
    \/ \E s \in Pushes : TokenRejected(s)
    \/ \E s \in Pushes : TokenMalformed(s)
    \/ \E s \in Pushes : StkPostFulfilled(s)
    \/ \E s \in Pushes : StkPostRejected(s)

ReadmeSpec == Init /\ [][ReadmeNext]_vars

\* ---------------------------------------------------------------- properties
Handled(c) == calls[c].pc = "returned"
LipaPosts  == {i \in 1..Len(posts) : posts[i].kind = "lipa"}
PostsOf(c) == {i \in LipaPosts : posts[i].call = c}
Settled(i) == posts[i].state \in {"fulfilled", "rejected"}

\* The caller was told that its request failed validation
ValidationError(c) == calls[c].res.t = "json" /\ calls[c].res.succcess = FALSE
\* The caller was given an outcome of the payment call
Answered(c) == calls[c].res.t # "none"

\* A field that is absent or empty
Missing(x) == x.t = "undefined" \/ (x.t = "str" /\ x.v = "")

Precedes(log, a, b) ==
    \E i, j \in 1..Len(log) : i < j /\ log[i] = a /\ log[j] = b

\* C1: a request whose phoneNumber or amount is missing (absent or empty) is
\* answered with the validation error and causes no outbound call; no request
\* that failed validation has an outbound call.
C1_MissingFieldFailsFast ==
    \A c \in Calls :
        /\ (Handled(c) /\ (Missing(calls[c].phoneNumber) \/ Missing(calls[c].amount)))
              => (ValidationError(c) /\ PostsOf(c) = {})
        /\ ValidationError(c) => PostsOf(c) = {}

\* C1 witness: submit({phoneNumber: "", amount: 1}) was answered with the
\* validation error, after another request had reached the provider.
C1_Witness ==
    \E c \in Calls :
        /\ Handled(c)
        /\ calls[c].phoneNumber = Str("")
        /\ calls[c].amount = Num(1)
        /\ ValidationError(c)
        /\ LipaPosts # {}

\* C2: a request with a phoneNumber and an amount that is zero or negative is
\* answered with the validation error and never posted; only requests with
\* amount > 0 reach the outbound payment call.
C2_NonPositiveAmountRejected ==
    /\ \A c \in Calls :
          (/\ Handled(c)
           /\ ~Missing(calls[c].phoneNumber)
           /\ calls[c].amount.t = "num"
           /\ calls[c].amount.v <= 0)
             => (ValidationError(c) /\ PostsOf(c) = {})
    /\ \A i \in LipaPosts :
          /\ calls[posts[i].call].amount.t = "num"
          /\ calls[posts[i].call].amount.v > 0

\* C3: once the outbound payment call of a request has settled, the caller has
\* been given the provider's result or an error.
C3_OutcomeDelivered ==
    \A i \in LipaPosts :
        Settled(i) => Answered(posts[i].call)

\* C4: a failed outbound call is caught and reported to the caller as an error;
\* there is no unhandled rejection and the host process does not crash.
C4_NoFailureEscapes ==
    /\ unhandled = 0
    /\ ~crashed
    /\ \A i \in LipaPosts :
          posts[i].state = "rejected" => Answered(posts[i].call)

\* C5: the payload of every POST carries the data of the request that caused
\* it: payer and prompted phone are the request's phoneNumber, the amount is the
\* request's amount, the payee is the business short code.
C5_PayloadCarriesRequest ==
    \A i \in LipaPosts :
        LET c == posts[i].call
            b == posts[i].body
        IN  /\ b.PartyA = calls[c].phoneNumber
            /\ b.PhoneNumber = calls[c].phoneNumber
            /\ b.Amount = calls[c].amount
            /\ b.PartyB = b.BusinessShortCode

\* C6: two POSTs issued at clock readings at least one second apart carry
\* different timestamps and different derived passwords.
C6_CredentialsFreshPerSubmit ==
    \A i, j \in LipaPosts :
        posts[j].at >= posts[i].at + 1
            => /\ posts[i].body.Timestamp # posts[j].body.Timestamp
               /\ posts[i].body.Password # posts[j].body.Password

\* C7: within a request that sent its payload, the token was obtained before
\* the timestamp was taken, the timestamp before the credentials were built,
\* and the credentials before the payload was sent.
C7_StepsOrdered ==
    \A c \in Calls :
        Precedes(calls[c].steps, "validate", "send")
            => /\ Precedes(calls[c].steps, "token", "timestamp")
               /\ Precedes(calls[c].steps, "timestamp", "credentials")
               /\ Precedes(calls[c].steps, "credentials", "send")

\* C8: every outbound payment POST carries Authorization: Bearer <token> with a
\* token that a successful token acquisition of the same request returned, and
\* no request that failed validation is posted.
C8_PostAuthorized ==
    /\ \A i \in LipaPosts :
          /\ posts[i].auth.t = "bearer"
          /\ \E k \in 1..Len(tokenCalls) :
                /\ tokenCalls[k].caller = posts[i].call
                /\ tokenCalls[k].state = "fulfilled"
                /\ tokenCalls[k].token = posts[i].auth.token
    /\ \A c \in Calls : ValidationError(c) => PostsOf(c) = {}

\* C9: at most one outbound POST is issued per request, whether it succeeds or
\* fails.
C9_SingleAttempt ==
    \A c \in Calls : Cardinality(PostsOf(c)) <= 1

\* C9 witness: the POST of a request failed, the server kept running, and that
\* POST is still the request's only one.
C9_Witness ==
    \E i \in LipaPosts :
        /\ posts[i].state = "rejected"
        /\ ~crashed
        /\ PostsOf(posts[i].call) = {i}

\* C10: a call of getAccessToken made while an earlier call's token is
\* unexpired (here: 30 seconds before its expiry at the latest) issues no
\* outbound request and returns that token; the outbound token requests are as
\* many as the calls that found no such token.
TokenCallIds == 1..Len(tokenCalls)
FoundFresh(j) ==
    \E i \in TokenCallIds :
        /\ tokenCalls[i].state = "fulfilled"
        /\ tokenCalls[j].startedAt > tokenCalls[i].respondedAt
        /\ tokenCalls[j].startedAt < tokenCalls[i].respondedAt + ExpiresIn - 30
C10_TokenReused ==
    /\ \A i, j \in TokenCallIds :
          (/\ tokenCalls[i].state = "fulfilled"
           /\ tokenCalls[j].startedAt = tokenCalls[i].respondedAt + 1)
             => /\ ~tokenCalls[j].outbound
                /\ tokenCalls[j].state = "fulfilled"
                      => tokenCalls[j].token = tokenCalls[i].token
    /\ oauthGets = Cardinality({j \in TokenCallIds : ~FoundFresh(j)})

\* C11: with several calls running concurrently, at most one token request
\* (refresh) is in flight at any time, and the callers share one token: two
\* calls whose tokens were obtained within one token lifetime hold the same
\* token.
InFlightTokenCalls == {i \in TokenCallIds : tokenCalls[i].state = "inflight"}
C11_OneRefreshInFlight ==
    /\ Cardinality(InFlightTokenCalls) <= 1
    /\ \A i, j \in TokenCallIds :
          (/\ tokenCalls[i].state = "fulfilled"
           /\ tokenCalls[j].state = "fulfilled"
           /\ tokenCalls[i].respondedAt = tokenCalls[j].respondedAt)
             => tokenCalls[i].token = tokenCalls[j].token

\* C12: every payment POST carries a token that a token response issued and
\* that is unexpired when it is used (now < expiresAt = the response's time +
\* expires_in); and a token request that failed (network error, non-2xx
\* status, malformed body) ends its call with an error: the caller holds no
\* token afterwards and no payment POST is made for it.
StkPosts == {i \in 1..Len(posts) : posts[i].kind = "stk"}
C12_NoStaleOrMissingToken ==
    /\ \A i \in StkPosts :
          LET k == posts[i].auth.token
          IN  /\ k \in TokenCallIds
              /\ tokenCalls[k].state = "fulfilled"
              /\ posts[i].at < tokenCalls[k].respondedAt + ExpiresIn
    /\ \A j \in TokenCallIds :
          tokenCalls[j].state \in {"rejected", "malformed"}
             => /\ pushes[tokenCalls[j].caller].outcome = "error"
                /\ pushes[tokenCalls[j].caller].token = NoToken
                /\ \A i \in StkPosts : posts[i].call # tokenCalls[j].caller

=============================================================================
